---- MODULE Spec2Model ----
(***************************************************************************)
(* Model of the OpenSCAD flattener (src/run.py, src/main.py).              *)
(*                                                                         *)
(* Text is a sequence of tokens.  A token is an atomic run of characters;  *)
(* the alphabet is chosen so that every character-level test the code      *)
(* makes (substring search, str.count, str.startswith, the regular         *)
(* expressions) is decided by whole tokens.                                *)
(***************************************************************************)
EXTENDS Integers, Sequences, FiniteSets, TLC

VARIABLES
    fs,            \* the files on disk: normalised path -> content
    doc,           \* the document handed to the top-level call
    phase,         \* "idle" | "running" | "writing" | "returned" | "raised"
    entry,         \* the top-level caller: "parse" | "swap" | "generate"
                   \* (generate_flat_file of run.py) | "main" (run.main) |
                   \* "legacy" (main.main)
    arg,           \* the already_included argument of a direct call: None or a set
    stack,         \* the activation records of parse, innermost last
    visited,       \* already_included: the set object shared by one call chain
    visited0,      \* its content when the top-level call started
    opened,        \* the paths given to open() by the current call, in order
    skipped,       \* the paths reported "Skipping already included file", in order
    exc,           \* in flight: "none" | "FileNotFoundError" | "RecursionError"
    result,        \* what the top-level parse returned (NoText before that)
    outDir,        \* generate_flat_file: the output directory was created
    outFile,       \* generate_flat_file: the text written to the output file
    callNo,        \* number of top-level calls started
    prev,          \* the last completed parse(doc, already_included=None)
    exitStatus,    \* the exit status of the command: <<>> while it runs, else <<n>>
    scanLines,     \* extract_modules_and_functions: lines (dummy line appended)
    scanI,         \* ... its line index i (1-based)
    scanResults,   \* ... its results list
    scanItems,     \* the items the scanned text was written from
    modMap,        \* update_modifiers_in_setup: modifiers, as (name, file) pairs in order
    modK,          \* ... the pair the loop is at (1-based)
    modContent,    \* ... updated_content
    modStatus      \* ... "idle" | "running" | "returned" | "raised"

resolverVars == <<fs, doc, phase, entry, arg, stack, visited, visited0, opened, skipped, exc,
                  result, outDir, outFile, callNo, prev, exitStatus>>
scanVars == <<scanLines, scanI, scanResults, scanItems>>
modVars == <<modMap, modK, modContent, modStatus>>
vars == <<resolverVars, scanVars, modVars>>

---------------------------------------------------------------------------
(* Bounds of the model *)

MaxDirectives == 2      \* directive lines in the top-level document
MaxCalls == 2           \* successive top-level calls
MaxItems == 2           \* items (definitions, comments, statements) of a scanned text
MaxModItems == 4        \* lines of a text given to update_modifiers_in_setup
MaxDepth == 4           \* nested parse activations the interpreter allows (recursion limit)

---------------------------------------------------------------------------
(* Tokens *)

NL == "\n"
SP == " "
Keywords == {"include", "use"}
Underscored == {"_X", "_A", "_B", "_C", "_F"}
WordTokens == Underscored \cup Keywords \cup
    {"module", "function", "if", "let", "cube", "ma", "mb", "mc", "md", "me",
     "me0", "m", "f", "x", "y", "1", "c"}
LineCommentTokens ==
    {"//", "// -----", "// BEGIN ", "// ---", "// END ", "// --------", "// SKIPPING "}

\* \s of the regular expressions, and what str.strip() removes
IsSpace(t) == t \in {SP, NL}

Min(S) == CHOOSE x \in S : \A y \in S : x <= y
Range(s) == {s[i] : i \in 1..Len(s)}
Count(s, t) == Cardinality({i \in 1..Len(s) : s[i] = t})
SortedSeq(S) ==
    [k \in 1..Cardinality(S) |-> CHOOSE x \in S : Cardinality({y \in S : y < x}) = k - 1]

\* the first index >= i holding a token that is no white space (Len(s)+1 if none)
SkipSpaces(s, i) ==
    LET J == {j \in i..Len(s) : ~IsSpace(s[j])}
    IN IF J = {} THEN Len(s) + 1 ELSE Min(J)

Strip(s) ==
    LET J == {j \in 1..Len(s) : ~IsSpace(s[j])}
    IN IF J = {} THEN <<>>
       ELSE SubSeq(s, Min(J), CHOOSE x \in J : \A y \in J : y <= x)

OccursAt(s, i, p) ==
    /\ i + Len(p) - 1 <= Len(s)
    /\ \A j \in 1..Len(p) : s[i + j - 1] = p[j]

CountSub(s, p) == Cardinality({i \in 1..Len(s) : OccursAt(s, i, p)})

RECURSIVE ReplaceFrom(_, _, _, _)
ReplaceFrom(s, i, old, new) ==
    LET J == {j \in i..Len(s) : OccursAt(s, j, old)}
    IN IF J = {} THEN SubSeq(s, i, Len(s))
       ELSE SubSeq(s, i, Min(J) - 1) \o new
            \o ReplaceFrom(s, Min(J) + Len(old), old, new)

\* str.replace(old, new): every non-overlapping occurrence, left to right
Replace(s, old, new) == ReplaceFrom(s, 1, old, new)

RECURSIVE Join(_, _)
Join(parts, sep) ==
    IF parts = <<>> THEN <<>>
    ELSE IF Len(parts) = 1 THEN parts[1]
    ELSE parts[1] \o sep \o Join(Tail(parts), sep)

RECURSIVE Split(_)
Split(s) ==
    LET J == {j \in 1..Len(s) : s[j] = NL}
    IN IF J = {} THEN <<s>>
       ELSE <<SubSeq(s, 1, Min(J) - 1)>> \o Split(SubSeq(s, Min(J) + 1, Len(s)))

\* str.splitlines(): a final line break opens no further line
SplitLines(s) ==
    LET P == Split(s)
    IN IF P[Len(P)] = <<>> THEN SubSeq(P, 1, Len(P) - 1) ELSE P

---------------------------------------------------------------------------
(* extract_modules_and_functions: the scanner *)

\* lines = scad_code.splitlines(); lines.append("")
ScanInput(text) == Append(SplitLines(text), <<>>)

\* re.match(r"^\s*module\s+(\w+)", line)
ModuleMatch(s) ==
    /\ Len(s) >= 3
    /\ s[1] = "module"
    /\ IsSpace(s[2])
    /\ SkipSpaces(s, 2) <= Len(s)
    /\ s[SkipSpaces(s, 2)] \in WordTokens

\* re.match(r"^\s*(_[A-Za-z0-9_]+)\s*=", line)
VarMatch(s) ==
    /\ Len(s) >= 2
    /\ s[1] \in Underscored
    /\ SkipSpaces(s, 2) <= Len(s)
    /\ s[SkipSpaces(s, 2)] = "="

\* re.match(r"^\s*(?:function|(_[A-Za-z0-9_]+)\s*=\s*function)\s+(\w+)?", line)
FunctionMatch(s) ==
    \/ /\ Len(s) >= 2
       /\ s[1] = "function"
       /\ IsSpace(s[2])
    \/ /\ VarMatch(s)
       /\ LET e == SkipSpaces(s, 2)
              g == SkipSpaces(s, e + 1)
          IN /\ g < Len(s)
             /\ s[g] = "function"
             /\ IsSpace(s[g + 1])

\* a mutant: the loop's index is not moved past the closing line
CommentNextStay(L, i) ==
    LET J == {j \in i..Len(L) : "*/" \in Range(L[j])}
    IN IF J = {} THEN Len(L) + 1 ELSE Min(J)

\* the block-comment loop: the index after the first line from i on holding "*/"
CommentNext(L, i) ==
    LET J == {j \in i..Len(L) : "*/" \in Range(L[j])}
    IN (IF J = {} THEN Len(L) + 1 ELSE Min(J)) + 1

\* the module loop: the index i it leaves, the span being lines[start:i]
RECURSIVE ModuleNextWhile(_, _, _, _)
ModuleNextWhile(L, i, found, braces) ==
    IF i > Len(L) THEN i
    ELSE LET line == L[i]
             opening == "{" \in Range(line) /\ ~found
             found2 == found \/ opening
             base == IF opening THEN 0 ELSE braces
             braces2 == IF found2 THEN base + Count(line, "{") - Count(line, "}")
                        ELSE base
         IN IF found2 /\ braces2 = 0 THEN i + 1
            ELSE ModuleNextWhile(L, i + 1, found2, braces2)

\* a mutant: the module loop stops after the module line
ModuleNextHeaderOnly(L, start) == start + 1

ModuleNext(L, start) == ModuleNextWhile(L, start, FALSE, 0)

\* a mutant: the outer loop goes on at the line after the module line
ModuleResumeNextLine(L, start) == start + 1

\* the line the outer loop goes on at after a module: the index its loop left
ModuleResume(L, start) == ModuleNext(L, start)

BracketDelta(line) ==
    Count(line, "[") + Count(line, "(") - Count(line, "]") - Count(line, ")")

\* the loop of a multi-line internal variable, from i = start + 1:
\* last is the last line added to current_content, next the index the scan goes on at
RECURSIVE VarWhile(_, _, _, _)
VarWhile(L, i, depth, semi) ==
    IF ~(i <= Len(L) /\ (depth > 0 \/ ~semi)) THEN [last |-> i - 1, next |-> i + 1]
    ELSE LET line == L[i]
             depth2 == depth + BracketDelta(line)
         IN IF depth2 = 0 /\ ";" \in Range(line) THEN [last |-> i, next |-> i + 1]
            ELSE VarWhile(L, i + 1, depth2, semi \/ ";" \in Range(line))

VarSpan(L, start) ==
    IF ";" \in Range(L[start]) THEN [last |-> start, next |-> start + 1]
    ELSE VarWhile(L, start + 1, BracketDelta(Strip(L[start])), FALSE)

\* the character loop of the function branch over one line
RECURSIVE CharScan(_, _, _, _)
CharScan(line, k, depth, inDef) ==
    IF k > Len(line) THEN [hit |-> FALSE, depth |-> depth]
    ELSE IF line[k] \in {"(", "[", "{"} THEN CharScan(line, k + 1, depth + 1, inDef)
    ELSE IF line[k] \in {")", "]", "}"} THEN CharScan(line, k + 1, depth - 1, inDef)
    ELSE IF line[k] = ";" /\ depth = 0 /\ inDef THEN [hit |-> TRUE, depth |-> depth]
    ELSE CharScan(line, k + 1, depth, inDef)

\* the function loop: found says whether a span is appended
RECURSIVE FunctionWhile(_, _, _, _)
FunctionWhile(L, i, depth, inDef) ==
    IF i > Len(L) THEN [found |-> FALSE, last |-> Len(L), next |-> i]
    ELSE LET inDef2 == inDef \/ "=" \in Range(L[i])
             r == CharScan(L[i], 1, depth, inDef2)
         IN IF r.hit THEN [found |-> TRUE, last |-> i, next |-> i + 1]
            ELSE FunctionWhile(L, i + 1, r.depth, inDef2)

\* a mutant: a function left open is emitted up to the end, as a module is
FunctionSpanToEnd(L, start) ==
    LET f == FunctionWhile(L, start, 0, FALSE)
    IN IF f.found THEN f ELSE [found |-> TRUE, last |-> Len(L), next |-> Len(L) + 1]

FunctionSpan(L, start) == FunctionWhile(L, start, 0, FALSE)

RECURSIVE LinesWithBreaks(_)
LinesWithBreaks(ls) ==
    IF ls = <<>> THEN <<>> ELSE ls[1] \o <<NL>> \o LinesWithBreaks(Tail(ls))

\* which branch of the outer loop line i takes
Branch(L, i) ==
    LET s == Strip(L[i])
    IN IF s = <<>> \/ s[1] \in LineCommentTokens THEN "skip"
       ELSE IF s[1] = "/*" THEN "comment"
       ELSE IF ModuleMatch(s) THEN "module"
       ELSE IF VarMatch(s) THEN "var"
       ELSE IF FunctionMatch(s) THEN "function"
       ELSE "other"

NoSpan == <<>>
Span(kind, first, last, text) ==
    <<[kind |-> kind, first |-> first, last |-> last, text |-> text]>>

\* one iteration of the outer while loop at line i:
\* the index it leaves and the span it appends (none: NoSpan)
ScanStep(L, i) ==
    LET b == Branch(L, i)
    IN CASE b = "skip" -> [next |-> i + 1, span |-> NoSpan]
         [] b = "comment" -> [next |-> CommentNext(L, i), span |-> NoSpan]
         [] b = "module" ->
              LET n == ModuleNext(L, i)
              IN [next |-> ModuleResume(L, i),
                  span |-> Span("module", i, n - 1, Join(SubSeq(L, i, n - 1), <<NL>>))]
         [] b = "var" ->
              LET v == VarSpan(L, i)
              IN [next |-> v.next,
                  span |-> Span("var", i, v.last, Join(SubSeq(L, i, v.last), <<NL>>))]
         [] b = "function" ->
              LET f == FunctionSpan(L, i)
              IN [next |-> f.next,
                  span |-> IF f.found
                           THEN Span("function", i, f.last,
                                     LinesWithBreaks(SubSeq(L, i, f.last)))
                           ELSE NoSpan]
         [] OTHER -> [next |-> i + 1, span |-> NoSpan]

RECURSIVE ScanFrom(_, _)
ScanFrom(L, i) ==
    IF i > Len(L) THEN <<>>
    ELSE LET r == ScanStep(L, i) IN r.span \o ScanFrom(L, r.next)

\* extract_modules_and_functions(scad_code): the list of span texts
extract_modules_and_functions(text) ==
    LET spans == ScanFrom(ScanInput(text), 1)
    IN [k \in 1..Len(spans) |-> spans[k].text]

---------------------------------------------------------------------------
(* Paths and files.  A path is the sequence of its components; os.path.join *)
(* and os.path.dirname do not normalise, open() resolves "." and "..".     *)

ScadNames == {"a.scad", "b.scad", "c.scad", "./a.scad", "sub/d.scad", "e.scad"}

\* the components of a relative file name
Components(f) ==
    IF f = "./a.scad" THEN <<".", "a.scad">>
    ELSE IF f = "sub/d.scad" THEN <<"sub", "d.scad">>
    ELSE <<f>>

\* os.path.join(root_dir, filename), filename relative
PathJoin(root, f) == root \o Components(f)

\* a mutant: the recursion searches the top directory again
DirNameTop(p) == SubSeq(p, 1, 1)

\* os.path.dirname(filepath)
DirName(p) == SubSeq(p, 1, Len(p) - 1)

\* the file a path denotes for open()
RECURSIVE Normalize(_)
Normalize(p) ==
    IF p = <<>> THEN <<>>
    ELSE LET head == Normalize(SubSeq(p, 1, Len(p) - 1))
             last == p[Len(p)]
         IN IF last = "." THEN head
            ELSE IF last = ".." /\ head # <<>> /\ head[Len(head)] # ".."
                 THEN SubSeq(head, 1, Len(head) - 1)
            ELSE Append(head, last)

Exists(files, p) == Normalize(p) \in DOMAIN files
ReadFile(files, p) == files[Normalize(p)]

\* no text at all: parse has not returned, nothing was written
NoText == <<"<no text>">>

\* root_dir: str = "src"
DefaultRoot == <<"src">>

---------------------------------------------------------------------------
(* parse: the resolver *)

\* pattern = re.compile(r"^\s*(use|include)\s*<([^>]+\.scad)>", re.MULTILINE)
\* a keyword at q with nothing but white space back to a line start, and
\* <name.scad> after optional white space
DirectiveAt(s, q) ==
    /\ s[q] \in Keywords
    /\ \E p \in 1..q :
          /\ p = 1 \/ s[p - 1] = NL
          /\ \A j \in p..(q - 1) : IsSpace(s[j])
    /\ LET a == SkipSpaces(s, q + 1)
       IN /\ a + 2 <= Len(s)
          /\ s[a] = "<"
          /\ s[a + 1] \in ScadNames
          /\ s[a + 2] = ">"

MatchList(s, Q) ==
    LET qs == SortedSeq(Q)
    IN [k \in 1..Len(qs) |->
           [statement |-> s[qs[k]], filename |-> s[SkipSpaces(s, qs[k] + 1) + 1]]]

\* a mutant: the pattern without its line anchor
MatchesUnanchored(s) ==
    MatchList(s, {q \in 1..Len(s) :
                     /\ s[q] \in Keywords
                     /\ LET a == SkipSpaces(s, q + 1)
                        IN /\ a + 2 <= Len(s)
                           /\ s[a] = "<"
                           /\ s[a + 1] \in ScadNames
                           /\ s[a + 2] = ">"})

\* a mutant: the include directives are taken first, then the use directives
MatchesIncludesFirst(s) ==
    LET all == MatchList(s, {q \in 1..Len(s) : DirectiveAt(s, q)})
    IN SelectSeq(all, LAMBDA m : m.statement = "include")
       \o SelectSeq(all, LAMBDA m : m.statement = "use")

\* matches = pattern.findall(scad_content)
Matches(s) == MatchList(s, {q \in 1..Len(s) : DirectiveAt(s, q)})

\* f"{statement} <{filename}>"
DirectiveText(statement, filename) == <<statement, SP, "<", filename, ">">>

\* f"// --------\n// SKIPPING <{filename}>\n// --------\n"
SkipMarker(filename) ==
    <<"// --------", NL, "// SKIPPING ", "<", filename, ">", NL, "// --------", NL>>

\* f"// -----\n// BEGIN {kind} <{filename}>\n// -----\n{content}\n// ---\n// END {kind} <{filename}>\n// ---\n"
Wrapped(kind, filename, content) ==
    <<"// -----", NL, "// BEGIN ", kind, SP, "<", filename, ">", NL, "// -----", NL>>
    \o content
    \o <<NL, "// ---", NL, "// END ", kind, SP, "<", filename, ">", NL, "// ---", NL>>

IncludeBlock(filename, parsed) == Wrapped("include", filename, parsed)

\* modules_content = "\n\n".join(extract_modules_and_functions(parsed_content)), wrapped
UseBlock(filename, parsed) ==
    Wrapped("use", filename, Join(extract_modules_and_functions(parsed), <<NL, NL>>))

\* the activation record of one parse call
NewFrame(content, root) ==
    [matches |-> Matches(content), k |-> 1, flattened |-> content, root |-> root]

Top == stack[Len(stack)]
Caller == stack[Len(stack) - 1]
Current(frame) == frame.matches[frame.k]
CurrentPath(frame) == PathJoin(frame.root, Current(frame).filename)
AtDirective == stack # <<>> /\ exc = "none" /\ Top.k <= Len(Top.matches)
AtReturn == stack # <<>> /\ exc = "none" /\ Top.k > Len(Top.matches)

\* a mutant: the default argument is one set object kept from call to call
InitialVisitedShared(given, left) == IF given = <<>> THEN left ELSE given[1]

\* if already_included is None: already_included = set()
InitialVisited(given, left) == IF given = <<>> THEN {} ELSE given[1]

\* the last call, as the next one finds it
LastCall ==
    IF callNo = 0 THEN <<>>
    ELSE <<[status |-> phase, out |-> result, opened |-> opened]>>

Begin(content, set) ==
    /\ phase' = "running"
    /\ stack' = <<NewFrame(content, DefaultRoot)>>
    /\ visited' = set
    /\ visited0' = set
    /\ opened' = <<>>
    /\ skipped' = <<>>
    /\ exc' = "none"
    /\ result' = NoText
    /\ outDir' = FALSE
    /\ outFile' = NoText
    /\ callNo' = callNo + 1
    /\ prev' = LastCall
    /\ exitStatus' = <<>>
    /\ UNCHANGED <<fs, doc, entry, arg, scanVars, modVars>>

\* the caller calls parse(doc, {}) up to MaxCalls times in a row, the
\* document and its swapped form once each, everything else once
CanStart ==
    /\ phase \in {"idle", "returned", "raised"}
    /\ callNo < (IF entry = "parse" /\ arg = <<>> THEN MaxCalls
                 ELSE IF entry = "swap" THEN 2
                 ELSE 1)

\* a caller invokes parse(doc, modifiers[, already_included=arg])
StartParse ==
    /\ CanStart
    /\ entry = "parse"
    /\ Begin(doc, InitialVisited(arg, visited))

\* the document with its first two lines in the other order
Swapped(content) ==
    LET ls == SplitLines(content)
    IN IF Len(ls) < 2 THEN content
       ELSE Join(<<ls[2], ls[1]>> \o SubSeq(ls, 3, Len(ls)), <<NL>>) \o <<NL>>

\* a caller flattens doc, and then doc with its two directives swapped
StartSwapped ==
    /\ CanStart
    /\ entry = "swap"
    /\ Begin(IF callNo = 0 THEN doc ELSE Swapped(doc), InitialVisited(arg, visited))

\* generate_flat_file reads the input file and calls parse(content, modifiers);
\* the configuration names no modifiers, so update_modifiers_in_setup leaves
\* the content as it is
GenStart ==
    /\ CanStart
    /\ entry = "generate"
    /\ Begin(doc, InitialVisited(<<>>, visited))

\* the input file of the command is not there
MissingInput == <<"<no input file>">>
\* the configuration file of run.py is not there
NoConfig == <<"<no configuration file>">>

\* the call fails before parse is entered
BeginFailed ==
    /\ phase' = "running"
    /\ stack' = <<>>
    /\ visited' = {}
    /\ visited0' = {}
    /\ opened' = <<>>
    /\ skipped' = <<>>
    /\ exc' = "FileNotFoundError"
    /\ result' = NoText
    /\ outDir' = FALSE
    /\ outFile' = NoText
    /\ callNo' = callNo + 1
    /\ prev' = LastCall
    /\ exitStatus' = <<>>
    /\ UNCHANGED <<fs, doc, entry, arg, scanVars, modVars>>

\* run.main: the configuration is loaded, generate_flat_file reads the input
\* file and calls parse (no modifiers configured)
MainStart ==
    /\ CanStart
    /\ entry = "main"
    /\ doc \notin {MissingInput, NoConfig}
    /\ Begin(doc, InitialVisited(<<>>, visited))

\* run.main: load_config raises (the file is not there)
MainNoConfig ==
    /\ CanStart
    /\ entry = "main"
    /\ doc = NoConfig
    /\ BeginFailed

\* run.main: open(input_file) in generate_flat_file raises
MainInputMissing ==
    /\ CanStart
    /\ entry = "main"
    /\ doc = MissingInput
    /\ BeginFailed

\* main.main: generate_flat_file reads the input file and calls parse(content);
\* the script runs in the directory DefaultRoot stands for
LegacyStart ==
    /\ CanStart
    /\ entry = "legacy"
    /\ doc # MissingInput
    /\ Begin(doc, InitialVisited(<<>>, visited))

\* main.main: open(input_file) in generate_flat_file raises
LegacyInputMissing ==
    /\ CanStart
    /\ entry = "legacy"
    /\ doc = MissingInput
    /\ BeginFailed

\* a mutant: a missing file is reported and skipped, as the message says
SkipMissing ==
    /\ stack' = [stack EXCEPT ![Len(stack)].k = @ + 1]
    /\ UNCHANGED <<visited, opened, skipped, exc>>

\* open(filepath) fails: except FileNotFoundError: print(...); raise
RaiseNotFound ==
    /\ exc' = "FileNotFoundError"
    /\ stack' = SubSeq(stack, 1, Len(stack) - 1)
    /\ opened' = Append(opened, CurrentPath(Top))
    /\ UNCHANGED <<visited, skipped>>

\* a mutant: the path is not recorded
MarkVisitedNot(set, path) == set

\* already_included.add(filepath) before the recursive call
MarkVisited(set, path) == set \cup {path}

\* the branch "if filepath in already_included": replace, continue
Skip ==
    /\ AtDirective
    /\ CurrentPath(Top) \in visited
    /\ stack' = [stack EXCEPT ![Len(stack)] =
                    [@ EXCEPT !.flattened =
                                  Replace(@, DirectiveText(Current(Top).statement,
                                                           Current(Top).filename),
                                          SkipMarker(Current(Top).filename)),
                              !.k = @ + 1]]
    /\ skipped' = Append(skipped, CurrentPath(Top))
    /\ UNCHANGED <<fs, doc, phase, entry, arg, visited, visited0, opened, exc,
                   result, outDir, outFile, callNo, prev, scanVars, modVars, exitStatus>>

\* open, read, already_included.add(filepath), parse(file_content, ..., dirname)
Load ==
    /\ AtDirective
    /\ CurrentPath(Top) \notin visited
    /\ Exists(fs, CurrentPath(Top))
    /\ Len(stack) < MaxDepth
    /\ opened' = Append(opened, CurrentPath(Top))
    /\ visited' = MarkVisited(visited, CurrentPath(Top))
    /\ stack' = Append(stack, NewFrame(ReadFile(fs, CurrentPath(Top)),
                                       DirName(CurrentPath(Top))))
    /\ UNCHANGED <<fs, doc, phase, entry, arg, visited0, skipped, exc,
                   result, outDir, outFile, callNo, prev, scanVars, modVars, exitStatus>>

\* the file is not there
Missing ==
    /\ AtDirective
    /\ CurrentPath(Top) \notin visited
    /\ ~Exists(fs, CurrentPath(Top))
    /\ RaiseNotFound
    /\ UNCHANGED <<fs, doc, phase, entry, arg, visited0,
                   result, outDir, outFile, callNo, prev, scanVars, modVars, exitStatus>>

\* the file is read and marked, and the recursive call runs into the
\* interpreter's recursion limit: except Exception: print(...); raise
Overflow ==
    /\ AtDirective
    /\ CurrentPath(Top) \notin visited
    /\ Exists(fs, CurrentPath(Top))
    /\ Len(stack) >= MaxDepth
    /\ opened' = Append(opened, CurrentPath(Top))
    /\ visited' = MarkVisited(visited, CurrentPath(Top))
    /\ exc' = "RecursionError"
    /\ UNCHANGED <<fs, doc, phase, entry, arg, stack, visited0, skipped,
                   result, outDir, outFile, callNo, prev, scanVars, modVars, exitStatus>>

\* the exception passes a parse activation: its except clause re-raises
Unwind ==
    /\ exc # "none"
    /\ stack # <<>>
    /\ stack' = SubSeq(stack, 1, Len(stack) - 1)
    /\ UNCHANGED <<fs, doc, phase, entry, arg, visited, visited0, opened, skipped, exc,
                   result, outDir, outFile, callNo, prev, scanVars, modVars, exitStatus>>

\* the exception reaches the caller of the top-level parse
RaiseToCaller ==
    /\ phase = "running"
    /\ exc # "none"
    /\ stack = <<>>
    /\ entry \in {"parse", "swap"}
    /\ phase' = "raised"
    /\ UNCHANGED <<fs, doc, entry, arg, stack, visited, visited0, opened, skipped, exc,
                   result, outDir, outFile, callNo, prev, scanVars, modVars, exitStatus>>

\* generate_flat_file: except FileNotFoundError / except Exception: print(...); raise
GenExcept ==
    /\ phase = "running"
    /\ exc # "none"
    /\ stack = <<>>
    /\ entry = "generate"
    /\ phase' = "raised"
    /\ UNCHANGED <<fs, doc, entry, arg, stack, visited, visited0, opened, skipped, exc,
                   result, outDir, outFile, callNo, prev, scanVars, modVars, exitStatus>>

\* run.main: generate_flat_file re-raises; except Exception: print; sys.exit(1)
MainExcept ==
    /\ phase = "running"
    /\ exc # "none"
    /\ stack = <<>>
    /\ entry = "main"
    /\ phase' = "raised"
    /\ exitStatus' = <<1>>
    /\ UNCHANGED <<fs, doc, entry, arg, stack, visited, visited0, opened, skipped, exc,
                   result, outDir, outFile, callNo, prev, scanVars, modVars>>

\* main.py generate_flat_file: except ...: print(...) -- nothing is raised again,
\* main returns and the interpreter ends with status 0
LegacyExcept ==
    /\ phase = "running"
    /\ exc # "none"
    /\ stack = <<>>
    /\ entry = "legacy"
    /\ phase' = "returned"
    /\ exitStatus' = <<0>>
    /\ UNCHANGED <<fs, doc, entry, arg, stack, visited, visited0, opened, skipped, exc,
                   result, outDir, outFile, callNo, prev, scanVars, modVars>>

Spliced(block) ==
    [Caller EXCEPT !.flattened =
                       Replace(@, DirectiveText(Current(Caller).statement,
                                                Current(Caller).filename), block),
                   !.k = @ + 1]

\* a recursive parse returns into "include": wrap and replace
SpliceInclude ==
    /\ AtReturn
    /\ Len(stack) > 1
    /\ Current(Caller).statement = "include"
    /\ stack' = Append(SubSeq(stack, 1, Len(stack) - 2),
                       Spliced(IncludeBlock(Current(Caller).filename, Top.flattened)))
    /\ UNCHANGED <<fs, doc, phase, entry, arg, visited, visited0, opened, skipped, exc,
                   result, outDir, outFile, callNo, prev, scanVars, modVars, exitStatus>>

\* a recursive parse returns into "use": extract, join, wrap and replace
SpliceUse ==
    /\ AtReturn
    /\ Len(stack) > 1
    /\ Current(Caller).statement = "use"
    /\ stack' = Append(SubSeq(stack, 1, Len(stack) - 2),
                       Spliced(UseBlock(Current(Caller).filename, Top.flattened)))
    /\ UNCHANGED <<fs, doc, phase, entry, arg, visited, visited0, opened, skipped, exc,
                   result, outDir, outFile, callNo, prev, scanVars, modVars, exitStatus>>

\* the top-level parse returns flattened
ReturnTop ==
    /\ AtReturn
    /\ Len(stack) = 1
    /\ result' = Top.flattened
    /\ stack' = <<>>
    /\ phase' = IF entry \in {"generate", "main", "legacy"} THEN "writing" ELSE "returned"
    /\ UNCHANGED <<fs, doc, entry, arg, visited, visited0, opened, skipped, exc,
                   outDir, outFile, callNo, prev, scanVars, modVars, exitStatus>>

\* generate_flat_file: os.makedirs(...); outfile.write(flattened_content);
\* under a command, main returns and the interpreter ends with status 0
GenWrite ==
    /\ phase = "writing"
    /\ outDir' = TRUE
    /\ outFile' = result
    /\ phase' = "returned"
    /\ exitStatus' = IF entry \in {"main", "legacy"} THEN <<0>> ELSE exitStatus
    /\ UNCHANGED <<fs, doc, entry, arg, stack, visited, visited0, opened, skipped, exc,
                   result, callNo, prev, scanVars, modVars>>

---------------------------------------------------------------------------
(* The documents and files the resolver is run on *)

FileA == PathJoin(DefaultRoot, "a.scad")
FileB == PathJoin(DefaultRoot, "b.scad")
FileC == PathJoin(DefaultRoot, "c.scad")
\* a file in a subdirectory, and two files named e.scad: one beside it, one in src
FileD == PathJoin(DefaultRoot, "sub/d.scad")
FileE == PathJoin(DirName(FileD), "e.scad")
FileE0 == PathJoin(DefaultRoot, "e.scad")

Plain(kw, f) == <<kw, SP, "<", f, ">", NL>>
Tight(kw, f) == <<kw, "<", f, ">", NL>>
Commented(kw, f) == <<"//", SP, kw, SP, "<", f, ">", NL>>

Invocation(name) == <<name, "(", ")", ";">>

\* a.scad: a module with a braced body, and a call of it
BodyA == <<"module", SP, "ma", "(", ")", SP, "{", SP, "}", NL>> \o Invocation("ma") \o <<NL>>
\* b.scad: a module whose body is one statement without braces, and a call of it
BodyB == <<"module", SP, "mb", "(", ")", SP, "cube", "(", ")", ";", NL>>
         \o Invocation("mb") \o <<NL>>
\* c.scad: an internal constant and a call
BodyC == <<"_C", SP, "=", SP, "1", ";", NL>> \o Invocation("mc") \o <<NL>>
\* sub/d.scad refers to e.scad by its bare name
BodyD == <<"include", SP, "<", "e.scad", ">", NL,
           "module", SP, "md", "(", ")", SP, "{", SP, "}", NL>>
BodyE == <<"module", SP, "me", "(", ")", SP, "{", SP, "}", NL>>
BodyE0 == <<"module", SP, "me0", "(", ")", SP, "{", SP, "}", NL>>
DocBody == Invocation("m") \o <<NL>>

FileInvocations == {Invocation("ma"), Invocation("mb"), Invocation("mc")}

DocLineKinds ==
    {Plain("include", "a.scad"), Plain("use", "a.scad"), Plain("include", "b.scad"),
     Plain("use", "b.scad"), Tight("include", "a.scad"), Commented("include", "a.scad"),
     Plain("include", "sub/d.scad")}

DirectivesOfA ==
    {<<>>, Plain("include", "b.scad"), Plain("use", "b.scad"), Plain("include", "a.scad"),
     Plain("include", "./a.scad"), Commented("use", "b.scad")}
DirectivesOfB ==
    {<<>>, Plain("include", "a.scad"), Plain("include", "c.scad")}

MakeFiles(da, db, withC) ==
    [p \in {FileA, FileB, FileD, FileE, FileE0} \cup (IF withC THEN {FileC} ELSE {}) |->
        IF p = FileA THEN da \o BodyA
        ELSE IF p = FileB THEN db \o BodyB
        ELSE IF p = FileD THEN BodyD
        ELSE IF p = FileE THEN BodyE
        ELSE IF p = FileE0 THEN BodyE0
        ELSE BodyC]

\* c.scad is left out only where a directive names it
FileSystems ==
    {MakeFiles(da, db, TRUE) : da \in DirectivesOfA, db \in DirectivesOfB}
    \cup {MakeFiles(da, Plain("include", "c.scad"), FALSE) : da \in DirectivesOfA}

Documents ==
    {Join(ls, <<>>) \o DocBody :
        ls \in UNION {[1..n -> DocLineKinds] : n \in 0..MaxDirectives}}

\* the ways the flattener is called: parse(doc, {}), parse(doc, {}, "src", {a}),
\* generate_flat_file(input, output, {}), and parse(doc, {}) followed by
\* parse of the swapped document
Calls ==
    {[entry |-> "parse", arg |-> <<>>],
     [entry |-> "parse", arg |-> <<{FileA}>>],
     [entry |-> "generate", arg |-> <<>>],
     [entry |-> "swap", arg |-> <<>>],
     [entry |-> "main", arg |-> <<>>],
     [entry |-> "legacy", arg |-> <<>>]}

ModIdle ==
    /\ modMap = <<>>
    /\ modK = 1
    /\ modContent = <<>>
    /\ modStatus = "idle"

ScanIdle ==
    /\ scanItems = <<>>
    /\ scanLines = <<>>
    /\ scanI = 1
    /\ scanResults = <<>>

Init ==
    /\ fs \in FileSystems
    /\ doc \in Documents \cup {MissingInput, NoConfig}
    /\ \E c \in Calls :
          /\ entry = c.entry
          /\ arg = c.arg
          /\ c.entry = "swap" => Len(Matches(doc)) = 2
          /\ doc = MissingInput => c.entry \in {"main", "legacy"}
          /\ doc = NoConfig => c.entry = "main"
    /\ phase = "idle"
    /\ stack = <<>>
    /\ visited = {}
    /\ visited0 = {}
    /\ opened = <<>>
    /\ skipped = <<>>
    /\ exc = "none"
    /\ result = NoText
    /\ outDir = FALSE
    /\ outFile = NoText
    /\ callNo = 0
    /\ prev = <<>>
    /\ exitStatus = <<>>
    /\ ScanIdle
    /\ ModIdle

Next ==
    \/ StartParse
    \/ StartSwapped
    \/ GenStart
    \/ MainStart
    \/ MainNoConfig
    \/ MainInputMissing
    \/ LegacyStart
    \/ LegacyInputMissing
    \/ Skip
    \/ Load
    \/ Missing
    \/ Overflow
    \/ Unwind
    \/ RaiseToCaller
    \/ GenExcept
    \/ MainExcept
    \/ LegacyExcept
    \/ SpliceInclude
    \/ SpliceUse
    \/ ReturnTop
    \/ GenWrite

Spec == Init /\ [][Next]_vars

---------------------------------------------------------------------------
(* The texts the scanner is run on: up to MaxItems items, each a definition, *)
(* a comment, a statement, or a fragment of one.                             *)

ItemLines ==
    [ modLine      |-> << <<"module", SP, "m", "(", ")", SP, "{", SP, "}">> >>,
      modBlock     |-> << <<"module", SP, "m", "(", ")", SP, "{">>,
                          <<SP, "_X", SP, "=", SP, "1", ";">>,
                          <<"}">> >>,
      modBare      |-> << <<"module", SP, "m", "(", ")", SP, "cube", "(", ")", ";">> >>,
      funLine      |-> << <<"function", SP, "f", "(", "x", ")", SP, "=", SP, "x", ";">> >>,
      funBlock     |-> << <<"function", SP, "f", "(", "x", ")", SP, "=">>,
                          <<SP, "(", "x", ")", ";">> >>,
      varLine      |-> << <<"_A", SP, "=", SP, "1", ";">> >>,
      varBlock     |-> << <<"_B", SP, "=", SP, "[">>,
                          <<SP, "1", "]", ";">> >>,
      lineComment  |-> << <<"//", SP, "c">> >>,
      blockComment |-> << <<"/*">>, <<SP, "c", SP, "*/">> >>,
      blockCommentLine |-> << <<"/*", SP, "c", SP, "*/">> >>,
      invoke       |-> << <<"m", "(", ")", ";">> >>,
      invokeBlock  |-> << <<"if", SP, "(", "x", ")", SP, "{">>,
                          <<SP, "m", "(", ")", ";">>,
                          <<"}">> >>,
      fragModule   |-> << <<"module", SP, "m", "(", ")">>, <<"{">> >>,
      fragFunction |-> << <<"function", SP, "f", "(", "x", ")", SP, "=", SP, "(", "x">> >>,
      fragVar      |-> << <<"_C", SP, "=", SP, "[">> >>,
      fragClose    |-> << <<")", SP, ";">> >>,
      fragComment  |-> << <<"/*">> >>,
      ifModule     |-> << <<"if", SP, "(", "x", ")", SP, "{">>,
                          <<SP, "module", SP, "m", "(", ")", SP, "{", SP, "}">>,
                          <<"}">> >>,
      varLate      |-> << <<"_C", SP, "=", SP, "[">>,
                          <<SP, "m", "(", ")", ";">>,
                          <<"]">> >>,
      varFunction  |-> << <<"_F", SP, "=", SP, "function", SP, "(", "x", ")", SP,
                            "(", "x", ";">>,
                          <<SP, "x", ")", ";">> >> ]

ModuleItems == {"modLine", "modBlock", "modBare"}
FunctionItems == {"funLine", "funBlock"}
VarItems == {"varLine", "varBlock"}
DefinitionItems == ModuleItems \cup FunctionItems \cup VarItems
CommentItems == {"lineComment", "blockComment", "blockCommentLine"}
InvocationItems == {"invoke", "invokeBlock"}
FragmentItems == {"fragModule", "fragFunction", "fragVar", "fragClose", "fragComment"}
ItemKinds == DOMAIN ItemLines

ItemSeqs == UNION {[1..n -> ItemKinds] : n \in 0..MaxItems}

RECURSIVE ItemsLines(_)
ItemsLines(items) ==
    IF items = <<>> THEN <<>> ELSE ItemLines[items[1]] \o ItemsLines(Tail(items))

ItemsText(items) == LinesWithBreaks(ItemsLines(items))

\* the first and last line of item k of the text
ItemFirst(items, k) == Len(ItemsLines(SubSeq(items, 1, k - 1))) + 1
ItemLast(items, k) == Len(ItemsLines(SubSeq(items, 1, k)))

---------------------------------------------------------------------------
(* The scanner as a machine: one action per branch of the outer loop *)

ScanDone == scanI > Len(scanLines)

\* the outer loop runs one iteration from line scanI
ScanIterate ==
    LET r == ScanStep(scanLines, scanI)
    IN /\ scanI' = r.next
       /\ scanResults' = scanResults \o r.span
       /\ UNCHANGED <<scanLines, scanItems, resolverVars, modVars>>

ScanSkip ==
    /\ ~ScanDone
    /\ Branch(scanLines, scanI) = "skip"
    /\ ScanIterate

ScanComment ==
    /\ ~ScanDone
    /\ Branch(scanLines, scanI) = "comment"
    /\ ScanIterate

ScanModule ==
    /\ ~ScanDone
    /\ Branch(scanLines, scanI) = "module"
    /\ ScanIterate

ScanVar ==
    /\ ~ScanDone
    /\ Branch(scanLines, scanI) = "var"
    /\ ScanIterate

ScanFunction ==
    /\ ~ScanDone
    /\ Branch(scanLines, scanI) = "function"
    /\ ScanIterate

ScanOther ==
    /\ ~ScanDone
    /\ Branch(scanLines, scanI) = "other"
    /\ ScanIterate

ResolverIdle ==
    /\ fs = <<>>
    /\ doc = <<>>
    /\ phase = "idle"
    /\ entry = "parse"
    /\ arg = <<>>
    /\ stack = <<>>
    /\ visited = {}
    /\ visited0 = {}
    /\ opened = <<>>
    /\ skipped = <<>>
    /\ exc = "none"
    /\ result = NoText
    /\ outDir = FALSE
    /\ outFile = NoText
    /\ callNo = 0
    /\ prev = <<>>
    /\ exitStatus = <<>>

ScanInit ==
    /\ scanItems \in ItemSeqs
    /\ scanLines = ScanInput(ItemsText(scanItems))
    /\ scanI = 1
    /\ scanResults = <<>>
    /\ ResolverIdle
    /\ ModIdle

ScanNext ==
    \/ ScanSkip
    \/ ScanComment
    \/ ScanModule
    \/ ScanVar
    \/ ScanFunction
    \/ ScanOther

SpecScan == ScanInit /\ [][ScanNext]_vars

---------------------------------------------------------------------------
(* update_modifiers_in_setup as a machine: one action per way an iteration *)
(* of its loop over the modifiers ends                                      *)

ModNames == {"A", "B"}

\* start_pattern = f"/* MODIFIER {modifier_name} */"
ModMarker(name) == IF name = "A" THEN "/* MODIFIER A */" ELSE "/* MODIFIER B */"

\* the files in src/modifiers: on.scad is there, off.scad is not
ModifierFiles == [f \in {"on.scad"} |-> <<"// ON">>]

\* start_indexes = [m.start() for m in re.finditer(re.escape(start_pattern), ...)]
StartIndexes(content, name) ==
    SortedSeq({i \in 1..Len(content) : content[i] = ModMarker(name)})

\* section_to_replace = updated_content[start_pos:end_pos]
Section(content, name) ==
    SubSeq(content, StartIndexes(content, name)[1], StartIndexes(content, name)[2])

\* new_section = f"{start_pattern}\n{modifier_content}\n{start_pattern}"
NewSection(name, file) ==
    <<ModMarker(name), NL>> \o ModifierFiles[file] \o <<NL, ModMarker(name)>>

ModRunning == modStatus = "running" /\ modK <= Len(modMap)
ModName == modMap[modK][1]
ModFile == modMap[modK][2]

\* a mutant: the anomaly ends the whole update with an error
AbortModifiers ==
    /\ modStatus' = "raised"
    /\ UNCHANGED <<modMap, modK, modContent>>

\* print(...); continue -- or the except clause that prints and falls through
SkipModifier ==
    /\ modK' = modK + 1
    /\ UNCHANGED <<modMap, modContent, modStatus>>

\* if not start_indexes: continue
ModNotFound ==
    /\ ModRunning
    /\ Len(StartIndexes(modContent, ModName)) = 0
    /\ SkipModifier
    /\ UNCHANGED <<resolverVars, scanVars>>

\* if len(start_indexes) < 2: continue
ModSingle ==
    /\ ModRunning
    /\ Len(StartIndexes(modContent, ModName)) = 1
    /\ SkipModifier
    /\ UNCHANGED <<resolverVars, scanVars>>

\* open(modifier_filepath) fails: except FileNotFoundError: print(...)
ModMissing ==
    /\ ModRunning
    /\ Len(StartIndexes(modContent, ModName)) >= 2
    /\ ModFile \notin DOMAIN ModifierFiles
    /\ SkipModifier
    /\ UNCHANGED <<resolverVars, scanVars>>

\* updated_content = updated_content.replace(section_to_replace, new_section)
ModReplace ==
    /\ ModRunning
    /\ Len(StartIndexes(modContent, ModName)) >= 2
    /\ ModFile \in DOMAIN ModifierFiles
    /\ modContent' = Replace(modContent, Section(modContent, ModName),
                             NewSection(ModName, ModFile))
    /\ modK' = modK + 1
    /\ UNCHANGED <<modMap, modStatus, resolverVars, scanVars>>

\* return updated_content
ModReturn ==
    /\ modStatus = "running"
    /\ modK > Len(modMap)
    /\ modStatus' = "returned"
    /\ UNCHANGED <<modMap, modK, modContent, resolverVars, scanVars>>

\* the texts: up to MaxModItems lines, each a marker or a line of code
ModItems == {<<ModMarker("A")>>, <<ModMarker("B")>>, <<"x">>}
ModTexts ==
    {Join(ls, <<NL>>) : ls \in UNION {[1..n -> ModItems] : n \in 0..MaxModItems}}

\* the mappings: up to two modifiers, each with a file that is there or not
ModMaps ==
    {m \in UNION {[1..n -> ModNames \X {"on.scad", "off.scad"}] : n \in 0..2} :
        \A i, j \in 1..Len(m) : i # j => m[i][1] # m[j][1]}

ModInit ==
    /\ modMap \in ModMaps
    /\ modContent \in ModTexts
    /\ modK = 1
    /\ modStatus = "running"
    /\ ResolverIdle
    /\ ScanIdle

ModNext ==
    \/ ModNotFound
    \/ ModSingle
    \/ ModMissing
    \/ ModReplace
    \/ ModReturn

SpecMod == ModInit /\ [][ModNext]_vars

---------------------------------------------------------------------------
(* Claims *)

\* the text by which the content of the file at p is recognised
FileHead(p) ==
    IF Normalize(p) = FileA THEN <<"module", SP, "ma">>
    ELSE IF Normalize(p) = FileB THEN <<"module", SP, "mb">>
    ELSE IF Normalize(p) = FileD THEN <<"module", SP, "md">>
    ELSE IF Normalize(p) = FileE THEN <<"module", SP, "me">>
    ELSE IF Normalize(p) = FileE0 THEN <<"module", SP, "me0">>
    ELSE <<"_C", SP, "=">>

\* the directive pattern matches nothing in s
PatternMatchesNothing(s) == \A q \in 1..Len(s) : ~DirectiveAt(s, q)

\* C1: within one top-level call, a file reached by two directives (one opened
\* it, a later one found it in VisitedSet) is expanded by the first only: its
\* content stands at most once in the final output
C1_ExpandedAtMostOnce ==
    phase = "returned" =>
        \A i \in 1..Len(opened) : \A j \in 1..Len(skipped) :
            opened[i] = skipped[j] => CountSub(result, FileHead(opened[i])) <= 1

\* C2: when parse returns, no directive the pattern matches is left as raw
\* directive text in the output, whatever its spelling
C2_NoRawDirectiveLeft ==
    phase = "returned" => PatternMatchesNothing(result)

\* the directive in turn names a file that is not there
MissingAtTop ==
    /\ AtDirective
    /\ CurrentPath(Top) \notin visited
    /\ ~Exists(fs, CurrentPath(Top))

\* the path of the file the j-th activation is waiting for
ActivePath(j) == CurrentPath(stack[j])
\* two paths that open() takes to the same file
SameFile(p, q) == Normalize(p) = Normalize(q)

\* C3: a directive that names a missing file (not yet visited) raises
\* FileNotFoundError, which passes every activation up to the top-level
\* caller; no text is returned, no output directory made, no file written
C3_MissingFileAborts ==
    /\ [](exc # "none" => result = NoText /\ ~outDir /\ outFile = NoText)
    /\ [](phase = "raised" => exc # "none" /\ stack = <<>>)
    /\ [][MissingAtTop => exc' = "FileNotFoundError" /\ Len(stack') < Len(stack)]_vars
    /\ [][exc # "none" /\ phase = "running" =>
             /\ exc' = exc
             /\ \/ Len(stack') < Len(stack)
                \/ stack = <<>> /\ entry # "legacy" /\ phase' = "raised"
                \/ stack = <<>> /\ entry = "legacy" /\ phase' = "returned"]_vars

C3_Witness ==
    /\ phase = "raised"
    /\ exc = "FileNotFoundError"
    /\ entry = "generate"
    /\ opened = <<FileA, FileB, FileC>>
    /\ outFile = NoText

\* C4: a directive that closes a cycle is not descended into, so no file is
\* entered while an activation parsing that same file is still open, and the
\* call ends within the interpreter's recursion limit
C4_CycleNotDescended ==
    /\ \A i, j \in 1..(Len(stack) - 1) :
          i # j => ~SameFile(ActivePath(i), ActivePath(j))
    /\ exc # "RecursionError"

\* C5: what a use directive brings into the output is definitions only: no
\* bare call statement of the used file, or of a file inlined into it
OnlyUses(s) ==
    LET ms == Matches(s) IN \A k \in 1..Len(ms) : ms[k].statement = "use"

C5_UseBringsDefinitionsOnly ==
    phase = "returned" /\ OnlyUses(doc) =>
        \A inv \in FileInvocations : CountSub(result, inv) = 0

\* C6: for a text of N module, M function and K internal-constant definitions
\* between comments and call statements the scanner returns N+M+K spans, each
\* holding the whole of its definition, none holding a line of a call statement
WellFormedItems ==
    \A k \in 1..Len(scanItems) :
        scanItems[k] \in DefinitionItems \cup CommentItems \cup InvocationItems
DefinitionCount ==
    Cardinality({k \in 1..Len(scanItems) : scanItems[k] \in DefinitionItems})

C6_ScannerExhaustive ==
    ScanDone /\ WellFormedItems =>
        /\ Len(scanResults) = DefinitionCount
        /\ \A k \in 1..Len(scanItems) :
              /\ scanItems[k] \in DefinitionItems =>
                    \E r \in 1..Len(scanResults) :
                        /\ scanResults[r].first = ItemFirst(scanItems, k)
                        /\ scanResults[r].last >= ItemLast(scanItems, k)
              /\ scanItems[k] \in InvocationItems =>
                    \A r \in 1..Len(scanResults) :
                        \/ scanResults[r].last < ItemFirst(scanItems, k)
                        \/ scanResults[r].first > ItemLast(scanItems, k)

\* C7: the spans are runs of consecutive lines of the input, no two overlap,
\* and they are returned in the order of their first lines
C7_SpansOrdered ==
    /\ \A r \in 1..Len(scanResults) :
          /\ 1 <= scanResults[r].first
          /\ scanResults[r].first <= scanResults[r].last
          /\ scanResults[r].last <= Len(scanLines)
          /\ scanResults[r].last < scanI
    /\ \A r \in 1..(Len(scanResults) - 1) :
          scanResults[r].last < scanResults[r + 1].first

C7_Witness ==
    /\ ScanDone
    /\ Len(scanResults) = 2
    /\ scanResults[1].last > scanResults[1].first
    /\ scanResults[2].first = scanResults[1].last + 1

\* C8: a document in which the pattern matches nothing is returned as it is;
\* no file is opened and VisitedSet stays as the caller gave it
C8_NoDirectivesUnchanged ==
    callNo > 0 /\ doc \in Documents /\ PatternMatchesNothing(doc) =>
        /\ opened = <<>>
        /\ visited = visited0
        /\ exc = "none"
        /\ phase = "returned" => result = doc

C8_Witness ==
    /\ phase = "returned"
    /\ PatternMatchesNothing(doc)
    /\ Count(doc, "include") = 2
    /\ visited0 = {FileA}

\* C9: a directive whose joined path the caller put into VisitedSet is replaced
\* by the SKIPPING marker; its file is not opened, its content is not in the
\* output, VisitedSet keeps it, and the other directives are still processed
GivenPath(m) == PathJoin(DefaultRoot, m.filename) \in visited0

C9_GivenPathSkipped ==
    phase = "returned" /\ arg # <<>> =>
        LET ms == Matches(doc)
            out == Matches(result)
        IN \A k \in 1..Len(ms) :
              /\ GivenPath(ms[k]) =>
                    /\ CountSub(result, SkipMarker(ms[k].filename)) >= 1
                    /\ \A n \in 1..Len(out) : out[n].filename # ms[k].filename
                    /\ \A n \in 1..Len(opened) : opened[n] # PathJoin(DefaultRoot, ms[k].filename)
                    /\ CountSub(result, <<"module", SP, "ma">>) = 0
              /\ ~GivenPath(ms[k]) =>
                    \E n \in 1..Len(opened) : opened[n] = PathJoin(DefaultRoot, ms[k].filename)

\* C10: VisitedSet lives for one top-level call: without the argument every
\* call starts from the empty set, so a second call on the same document and
\* files opens the same files and returns the same text as the first
C10_FreshVisitedPerCall ==
    entry = "parse" /\ arg = <<>> /\ callNo > 0 =>
        /\ visited0 = {}
        /\ prev # <<>> /\ phase \in {"returned", "raised"} =>
              /\ phase = prev[1].status
              /\ result = prev[1].out
              /\ opened = prev[1].opened

C10_Witness ==
    /\ entry = "parse"
    /\ arg = <<>>
    /\ callNo = 2
    /\ phase = "returned"
    /\ Len(opened) = 2
    /\ CountSub(result, SkipMarker("a.scad")) = 1

\* C11: the directives of a loaded file are resolved against the directory
\* that holds the file: every activation but the first has as its search root
\* the path of the file it parses without the last component
C11_OwnDirectory ==
    \A j \in 2..Len(stack) :
        stack[j].root = SubSeq(ActivePath(j - 1), 1, Len(ActivePath(j - 1)) - 1)

C11_Witness ==
    /\ Len(stack) = 3
    /\ stack[3].root = <<"src", "sub">>
    /\ opened = <<FileD, FileE>>

\* C12: with one include and one use directive of files without a shared
\* dependency, the output for the swapped document is the output for the
\* document with the two spliced texts in the other order, all else the same
C12_SwapMovesBlocksOnly ==
    LET \* the files a file refers to
        Refs(f) ==
            {Normalize(PathJoin(DirName(f), Matches(fs[f])[k].filename)) :
                k \in 1..Len(Matches(fs[f]))} \cap DOMAIN fs
        Closure(S) == S \cup UNION {Refs(f) : f \in S}
        \* the files a directive brings in, directly or not
        Reach(p) ==
            IF Normalize(p) \in DOMAIN fs
            THEN Closure(Closure(Closure(Closure({Normalize(p)}))))
            ELSE {}
        ms == Matches(doc)
        \* one include and one use directive, of files that share no dependency
        IncludeAndUse ==
            /\ Len(ms) = 2
            /\ {ms[1].statement, ms[2].statement} = {"include", "use"}
            /\ Reach(PathJoin(DefaultRoot, ms[1].filename))
                 \cap Reach(PathJoin(DefaultRoot, ms[2].filename)) = {}
    IN /\ entry = "swap"
       /\ callNo = 2
       /\ phase = "returned"
       /\ prev[1].status = "returned"
       /\ IncludeAndUse
       => \E i \in 1..(Len(prev[1].out) - Len(DocBody) - 1) :
             /\ SubSeq(prev[1].out, Len(prev[1].out) - Len(DocBody) + 1, Len(prev[1].out))
                   = DocBody
             /\ result = SubSeq(prev[1].out, i + 1, Len(prev[1].out) - Len(DocBody))
                         \o SubSeq(prev[1].out, 1, i)
                         \o DocBody

\* C13: with at least two markers and a readable file, the text from the first
\* marker through the second becomes marker, newline, file content, newline,
\* marker; the text before the first and after the second marker stays
C13_SectionReplacedRestKept ==
    [][(/\ ModRunning
        /\ Len(StartIndexes(modContent, ModName)) >= 2
        /\ ModFile \in DOMAIN ModifierFiles) =>
          modContent' =
              SubSeq(modContent, 1, StartIndexes(modContent, ModName)[1] - 1)
              \o NewSection(ModName, ModFile)
              \o SubSeq(modContent, StartIndexes(modContent, ModName)[2] + 1,
                        Len(modContent))]_vars

\* C14: a modifier with no marker, one marker or a missing file leaves the
\* content as it is, raises nothing, and the loop goes on to the next modifier
C14_AnomalySkipped ==
    /\ [][(/\ ModRunning
           /\ \/ Len(StartIndexes(modContent, ModName)) < 2
              \/ ModFile \notin DOMAIN ModifierFiles) =>
             /\ modContent' = modContent
             /\ modStatus' = "running"
             /\ modK' = modK + 1]_vars
    /\ [](modStatus # "raised")

C14_Witness ==
    /\ modStatus = "returned"
    /\ Len(modMap) = 2
    /\ modMap[1][2] = "off.scad"
    /\ CountSub(modContent, <<ModMarker(modMap[1][1]), NL, ModMarker(modMap[1][1])>>) = 1
    /\ CountSub(modContent, NewSection(modMap[2][1], "on.scad")) = 1

\* C15: a command ends with status 0 only when the output file was written,
\* and with another status when the input file is missing or flattening raised
C15_ExitStatus ==
    /\ exitStatus = <<0>> => outFile # NoText
    /\ entry \in {"main", "legacy"} /\ phase \in {"returned", "raised"}
          /\ (doc = MissingInput \/ exc # "none") =>
          exitStatus # <<>> /\ exitStatus # <<0>>

\* the document the call in progress was given
CallDocument == IF entry = "swap" /\ callNo = 2 THEN Swapped(doc) ELSE doc

\* the directives of a text in the order they stand in it
SourceOrder(s) == MatchList(s, {q \in 1..Len(s) : DirectiveAt(s, q)})

\* the depth-first walk in source order: directive k of ms, found in a file of
\* directory root by activation d, is checked against everything marked so
\* far; its whole subtree is walked before directive k + 1 is looked at
RECURSIVE Walk(_, _, _, _, _)
Walk(ms, k, root, d, st) ==
    IF st.failed \/ k > Len(ms) THEN st
    ELSE LET p == PathJoin(root, ms[k].filename)
         IN IF p \in st.marked
            THEN Walk(ms, k + 1, root, d, [st EXCEPT !.skips = Append(@, p)])
            ELSE IF ~Exists(fs, p)
            THEN [st EXCEPT !.opens = Append(@, p), !.failed = TRUE]
            ELSE IF d >= MaxDepth
            THEN [st EXCEPT !.opens = Append(@, p), !.marked = @ \cup {p},
                            !.failed = TRUE]
            ELSE Walk(ms, k + 1, root, d,
                      Walk(SourceOrder(ReadFile(fs, p)), 1,
                           SubSeq(p, 1, Len(p) - 1), d + 1,
                           [st EXCEPT !.opens = Append(@, p), !.marked = @ \cup {p}]))

C17_IncludesBeforeUses ==
    /\ \A j \in 1..Len(stack) :
           stack[j].k <= Len(stack[j].matches) /\ Current(stack[j]).statement = "use" =>
               \A i \in (stack[j].k + 1)..Len(stack[j].matches) :
                   stack[j].matches[i].statement # "include"
    /\ phase = "returned" /\ doc = Plain("use", "a.scad") \o Plain("include", "a.scad") \o DocBody
           /\ CallDocument = doc /\ visited0 = {} =>
               CountSub(result, <<"// BEGIN ", "include", SP, "<", "a.scad", ">">>) = 1

\* C18: when the path of a directive is already in the visited set, exactly
\* one occurrence of the directive text is replaced by the skip marker; the
\* other verbatim occurrences of that text stay as they are (stated for the
\* steps where the text occurs at all).
C18_SkipReplacesOne ==
    [][AtDirective /\ CurrentPath(Top) \in visited /\ skipped' # skipped =>
          LET text == DirectiveText(Current(Top).statement, Current(Top).filename)
              before == Top.flattened
              ReplaceAt(s, i, old, new) ==
                  SubSeq(s, 1, i - 1) \o new \o SubSeq(s, i + Len(old), Len(s))
          IN CountSub(before, text) > 0 =>
             \E i \in {q \in 1..Len(before) : OccursAt(before, q, text)} :
                 stack'[Len(stack)].flattened =
                     ReplaceAt(before, i, text, SkipMarker(Current(Top).filename))]_vars

\* C19: replacing a directive acts on the text of the original document only;
\* text that was spliced in before is never altered by a later directive: no
\* step on the working text of an activation takes away a BEGIN, END or
\* SKIPPING marker line that was already there.
C19_SplicedTextKept ==
    [][LET Kinds == {"include", "use"}
           MarkerLines ==
               {<<"// BEGIN ", kind, SP, "<", f, ">", NL>> : kind \in Kinds, f \in ScadNames}
               \cup {<<"// END ", kind, SP, "<", f, ">", NL>> : kind \in Kinds, f \in ScadNames}
               \cup {<<"// SKIPPING ", "<", f, ">", NL>> : f \in ScadNames}
       IN \A j \in 1..Len(stack) : j <= Len(stack') =>
          \A m \in MarkerLines :
              CountSub(stack'[j].flattened, m) >= CountSub(stack[j].flattened, m)]_vars

\* C20: the visited set identifies a file by its resolved path: two relative
\* spellings of one file are one entry, and the second spelling is skipped,
\* so no file is opened twice in a call.
C20_OneEntryPerFile ==
    /\ \A p, q \in visited : SameFile(p, q) => p = q
    /\ \A i, j \in 1..Len(opened) : i # j => ~SameFile(opened[i], opened[j])

\* C21: within one call a path is loaded only when it is not in the visited
\* set and is put into the set in the step that reads it, before the
\* recursion starts; the set never shrinks, no joined path is opened twice,
\* and after a successful return the set is its initial content plus exactly
\* the joined paths of the files loaded.
C21_LoadedOnceAndRecorded ==
    /\ [](\A i, j \in 1..Len(opened) : i # j => opened[i] # opened[j])
    /\ [](visited0 \subseteq visited)
    /\ [][callNo' = callNo => visited \subseteq visited']_vars
    /\ [][callNo' = callNo /\ Len(opened') > Len(opened) /\ exc' = "none" =>
             /\ opened'[Len(opened')] \notin visited
             /\ visited' = visited \cup {opened'[Len(opened')]}
             /\ Len(stack') = Len(stack) + 1]_vars
    /\ [](phase = "returned" /\ exc = "none" => visited = visited0 \cup Range(opened))

C21_Witness ==
    /\ phase = "returned"
    /\ exc = "none"
    /\ visited0 = {FileA}
    /\ opened = <<FileB, FileC>>
    /\ skipped = <<FileA>>
    /\ visited = {FileA, FileB, FileC}

\* C22: spans are emitted only for top-level definitions: a module line that
\* lies inside the braces of an if block opens no span.
C22_TopLevelOnly ==
    \A k \in 1..Len(scanItems) :
        scanItems[k] = "ifModule" =>
            \A r \in 1..Len(scanResults) :
                scanResults[r].first # ItemFirst(scanItems, k) + 1

\* C23: a line '_NAME = function ...' is scanned with the function rule: its
\* span ends at the first ';' met at combined depth zero over ( [ { and ) ] },
\* not at a ';' inside open brackets, parentheses or braces.
C23_ConstantFunctionRule ==
    \A r \in 1..Len(scanResults) :
        LET s == Strip(scanLines[scanResults[r].first])
            f == FunctionSpan(scanLines, scanResults[r].first)
        IN VarMatch(s) /\ FunctionMatch(s) =>
               /\ f.found
               /\ scanResults[r].last = f.last

\* C24: a module line after which no '{' occurs, or whose brace count never
\* comes back to zero after the first '{' before the input ends, yields
\* exactly one span, from the module line to the end of the input, and the
\* scan ends normally.
C24_UnclosedModuleToEnd ==
    [][LET L == scanLines
           Opening == {j \in scanI..Len(L) : "{" \in Range(L[j])}
           Net(a, b) == Count(LinesWithBreaks(SubSeq(L, a, b)), "{")
                        - Count(LinesWithBreaks(SubSeq(L, a, b)), "}")
           Unclosed == \/ Opening = {}
                       \/ \A j \in Min(Opening)..Len(L) : Net(Min(Opening), j) # 0
       IN ~ScanDone /\ Branch(L, scanI) = "module" /\ Unclosed =>
              /\ Len(scanResults') = Len(scanResults) + 1
              /\ SubSeq(scanResults', 1, Len(scanResults)) = scanResults
              /\ scanResults'[Len(scanResults')].first = scanI
              /\ scanResults'[Len(scanResults')].last = Len(L)
              /\ scanResults'[Len(scanResults')].text
                     = Join(SubSeq(L, scanI, Len(L)), <<NL>>)
              /\ scanI' = Len(L) + 1]_vars

C24_Witness ==
    /\ ScanDone
    /\ scanItems = <<"modLine", "fragModule">>
    /\ Len(scanResults) = 2
    /\ scanResults[2].first = 2
    /\ scanResults[2].last = Len(scanLines)

\* C25: the scan ends without an index error on every input: each iteration
\* of the outer loop leaves the line index larger than it found it, and every
\* inner loop stops at the end of the lines, so the index never passes the
\* line after the last one by more than one, also for an unterminated block
\* comment, constant or function.
C25_ScanAdvances ==
    /\ scanI \in 1..(Len(scanLines) + 2)
    /\ ~ScanDone =>
          LET r == ScanStep(scanLines, scanI)
          IN /\ r.next > scanI
             /\ r.next <= Len(scanLines) + 2
             /\ r.span # NoSpan =>
                   r.span[1].first = scanI /\ r.span[1].last \in scanI..Len(scanLines)

C25_Witness ==
    /\ ScanDone
    /\ scanItems = <<"blockCommentLine", "fragComment">>
    /\ scanI = Len(scanLines) + 2

\* C26: no input line is passed over unexamined: every line an iteration
\* of the outer loop moves past is the line it tested against the patterns,
\* a line of the comment it skipped, or a line of the span it emitted; so the
\* line after a multi-line internal constant is examined.
C26_NoLineUnexamined ==
    [][LET InputLines == 1..(Len(scanLines) - 1)
       IN \A j \in (scanI..(scanI' - 1)) \cap InputLines :
              \/ j = scanI
              \/ Branch(scanLines, scanI) = "comment"
              \/ /\ Len(scanResults') > Len(scanResults)
                 /\ j <= scanResults'[Len(scanResults')].last]_vars

\* C27: a function definition for which no ';' at depth zero comes before the
\* input ends produces no span, and every line after the function line is
\* consumed, so that no definition that follows it is emitted.
C27_OpenFunctionDropped ==
    [][LET L == scanLines
           flat == LinesWithBreaks(SubSeq(L, scanI, Len(L)))
           Depth(p) ==
               Cardinality({q \in 1..p : flat[q] \in {"(", "[", "{"}})
               - Cardinality({q \in 1..p : flat[q] \in {")", "]", "}"}})
           LineEnd(p) == Min({q \in p..Len(flat) : flat[q] = NL})
           Closing == \E p \in 1..Len(flat) :
                          /\ flat[p] = ";"
                          /\ Depth(p) = 0
                          /\ "=" \in Range(SubSeq(flat, 1, LineEnd(p)))
       IN ~ScanDone /\ Branch(L, scanI) = "function" /\ ~Closing =>
              /\ scanResults' = scanResults
              /\ scanI' = Len(L) + 1]_vars

C27_Witness ==
    /\ ScanDone
    /\ scanItems = <<"fragFunction", "modLine">>
    /\ scanResults = <<>>

============================================================================
